---- MODULE Spec2Model ----
(***************************************************************************)
(* Dependency-graph visualizer, stage 3 (src/stage3/dependency_visualizer  *)
(* .py): DependencyGraph, the recursive builder build_dependency_graph_bfs,*)
(* detect_cycles and the main/analyze_dependencies/print_graph pipeline.   *)
(*                                                                         *)
(* Three kinds of run are modelled: a caller that drives a fresh           *)
(* DependencyGraph through add_node/add_edge (mode "api"), one run of the  *)
(* command-line tool (mode "tool"), and one run of the stage-2 tool        *)
(* (src/stage2/dependency_visualizer.py, mode "stage2"), which prints the  *)
(* direct dependencies of a package.                                       *)
(***************************************************************************)
EXTENDS Integers, Sequences, FiniteSets, TLC

VARIABLES
    mode,              \* "api": DependencyGraph driven directly; "tool": main();
                       \* "stage2": main() of the stage-2 tool
    package_name,      \* DependencyVisualizer.package_name
    filter_substring,  \* DependencyVisualizer.filter_substring (None or a string)
    max_depth,         \* DependencyVisualizer.max_depth
    repo,              \* the metadata source: name -> [found, dependencies]
    graph,             \* DependencyGraph: [nodes, edges]
    visited,           \* DependencyVisualizer.visited
    in_progress,       \* DependencyVisualizer.in_progress
    stack,             \* active frames of build_dependency_graph_bfs
    warnings,          \* stderr: packages whose failed fetch was reported as a warning
    calls,             \* every call of build_dependency_graph_bfs made so far
    pc,                \* position of the run
    exit_code,         \* process exit status (Running while the run is active)
    printed,           \* what print_graph wrote: "nothing", "empty" or "graph"
    cycles,            \* the list print_graph got from detect_cycles
    output,            \* what print_graph wrote: the counts and the lines of the tree
    expansions,        \* the packages fetched with success, in the order of their fetch
    load_order,        \* the load order computed for the built graph (NoOrder: not computed)
    stage2_dependencies, \* stage 2: the names analyze_dependencies got and printed
    api_last,          \* mode "api": the previous call made on the graph
    api_prev,          \* mode "api": the graph before the latest call
    api_repeat,        \* mode "api": the latest call repeats the call before it
    api_calls          \* mode "api": number of calls made

vars == <<mode, package_name, filter_substring, max_depth, repo, graph, visited,
          in_progress, stack, warnings, calls, pc, exit_code, printed, cycles,
          output, expansions, load_order, stage2_dependencies,
          api_last, api_prev, api_repeat, api_calls>>

(***************************************************************************)
(* Bounds of the model.                                                    *)
(***************************************************************************)
MaxEntries == 4        \* dependency entries in a generated repository file
MaxApiCalls == 3       \* calls a direct caller makes on a DependencyGraph
MaxWarnings == 8       \* cap on the warnings one run may print

(***************************************************************************)
(* Python binds a name to a value: in `x = e`, e is evaluated once and the *)
(* code that follows reads the value.  bind(e, Body) is Body applied to    *)
(* the value of e.                                                         *)
(***************************************************************************)
bind(e, Body(_)) == CHOOSE r \in {Body(x) : x \in {e}} : TRUE

(***************************************************************************)
(* Strings.  Package names and filters are strings; Spelling gives the     *)
(* characters of each string the model uses, so that lower() and the       *)
(* substring test `in` are computed character by character.                *)
(***************************************************************************)
None == "<None>"       \* Python's None for Optional[str]

Spelling(s) ==
    CASE s = ""      -> <<>>
      [] s = " "     -> <<" ">>
      [] s = "a"     -> <<"a">>
      [] s = "A"     -> <<"A">>
      [] s = "B"     -> <<"B">>
      [] s = "C"     -> <<"C">>
      [] s = "D"     -> <<"D">>
      [] s = "E"     -> <<"E">>
      [] s = "F"     -> <<"F">>
      [] s = "G"     -> <<"G">>
      [] s = "C_DEV" -> <<"C", "_", "D", "E", "V">>
      [] s = "E_DEV" -> <<"E", "_", "D", "E", "V">>
      [] s = "_DEV"  -> <<"_", "D", "E", "V">>
      [] s = "_dev"  -> <<"_", "d", "e", "v">>
      [] s = "p*255" -> [i \in 1..255 |-> "p"]
      [] s = "p*256" -> [i \in 1..256 |-> "p"]
      [] s = "f*100" -> [i \in 1..100 |-> "f"]
      [] s = "f*101" -> [i \in 1..101 |-> "f"]

\* str.lower() on one character
lower_char(c) ==
    CASE c = "A" -> "a" [] c = "B" -> "b" [] c = "C" -> "c" [] c = "D" -> "d"
      [] c = "E" -> "e" [] c = "F" -> "f" [] c = "G" -> "g" [] c = "V" -> "v"
      [] OTHER -> c

\* str.lower()
lower(w) == [i \in 1..Len(w) |-> lower_char(w[i])]

\* Python's `sub in w` on strings
contains(w, sub) ==
    \E i \in 0..(Len(w) - Len(sub)) : SubSeq(w, i + 1, i + Len(sub)) = sub

\* truthiness of an Optional[str]
truthy(s) == s # None /\ Len(Spelling(s)) > 0

\* A variant that compares without folding the package name's case.
should_skip_package_cased(f, name) ==
    truthy(f) /\ contains(Spelling(name), lower(Spelling(f)))

\* DependencyVisualizer.should_skip_package
should_skip_package(f, name) ==
    truthy(f) /\ contains(lower(Spelling(name)), lower(Spelling(f)))

(***************************************************************************)
(* DependencyGraph                                                         *)
(***************************************************************************)
EmptyGraph == [nodes |-> {}, edges |-> [n \in {} |-> {}]]

\* DependencyGraph.add_node
add_node(g, node) ==
    [nodes |-> g.nodes \cup {node},
     edges |-> IF node \in DOMAIN g.edges
               THEN g.edges
               ELSE [n \in DOMAIN g.edges \cup {node} |->
                        IF n = node THEN {} ELSE g.edges[n]]]

\* A variant that toggles the successor (^= in place of add).
add_edge_toggle(g, from_node, to_node) ==
    LET g2 == add_node(add_node(g, from_node), to_node)
    IN  [g2 EXCEPT !.edges[from_node] =
            IF to_node \in @ THEN @ \ {to_node} ELSE @ \cup {to_node}]

\* A variant that inserts only the source endpoint.
add_edge_dangling(g, from_node, to_node) ==
    LET g1 == add_node(g, from_node)
    IN  [g1 EXCEPT !.edges[from_node] = @ \cup {to_node}]

\* DependencyGraph.add_edge
add_edge(g, from_node, to_node) ==
    LET g2 == add_node(add_node(g, from_node), to_node)
    IN  [g2 EXCEPT !.edges[from_node] = @ \cup {to_node}]

\* DependencyGraph.has_edge
has_edge(g, from_node, to_node) ==
    from_node \in DOMAIN g.edges /\ to_node \in g.edges[from_node]

\* DependencyGraph.get_dependencies
get_dependencies(g, node) ==
    IF node \in DOMAIN g.edges THEN g.edges[node] ELSE {}

\* the edges of a graph as a set of pairs
EdgeSet(g) ==
    UNION {{<<u, v>> : v \in g.edges[u]} : u \in DOMAIN g.edges}

RECURSIVE sum_len(_, _)
sum_len(edges, keys) ==
    IF keys = {} THEN 0
    ELSE LET k == CHOOSE x \in keys : TRUE
         IN  Cardinality(edges[k]) + sum_len(edges, keys \ {k})

\* print_graph's total_edges
total_edges(g) == sum_len(g.edges, DOMAIN g.edges)

(***************************************************************************)
(* The metadata source.  A repository maps a package name to its entry:    *)
(* found or not, and the "dependencies" list of the entry as written.      *)
(***************************************************************************)
Pkg(deps) == [found |-> TRUE, dependencies |-> deps]
NotFound == [found |-> FALSE, dependencies |-> <<>>]

\* membership of a value in a list
InSeq(x, w) == \E i \in 1..Len(w) : w[i] = x

\* the keys of {dep: '*' for dep in dependencies}, in insertion order
RECURSIVE dict_keys_from(_, _, _)
dict_keys_from(deps, i, keys) ==
    IF i > Len(deps) THEN keys
    ELSE bind(IF InSeq(deps[i], keys) THEN keys ELSE Append(keys, deps[i]),
              LAMBDA keys1 : dict_keys_from(deps, i + 1, keys1))

dict_keys(deps) == dict_keys_from(deps, 1, <<>>)

\* DependencyVisualizer.get_package_dependencies (with fetch_package_info_test):
\* ok = FALSE stands for DependencyError
get_package_dependencies(r, name) ==
    IF r[name].found
    THEN [ok |-> TRUE, dependencies |-> dict_keys(r[name].dependencies)]
    ELSE [ok |-> FALSE, dependencies |-> <<>>]

(***************************************************************************)
(* build_dependency_graph_bfs                                              *)
(***************************************************************************)
\* lines 310-320: the loop that adds the edges and fills the queue
\* st = [graph, queue]; i is the position of the loop in dependencies.items()
RECURSIVE add_dependencies(_, _, _, _, _, _)
\* A variant that makes the dependency a node before the filter is consulted.
add_dependencies_node_first(st, root_package, deps, i, f, vis) ==
    IF i > Len(deps) THEN st
    ELSE bind(IF should_skip_package(f, deps[i])
              THEN [st EXCEPT !.graph = add_node(@, deps[i])]
              ELSE [graph |-> add_edge(st.graph, root_package, deps[i]),
                    queue |-> IF deps[i] \notin vis
                              THEN Append(st.queue, deps[i]) ELSE st.queue],
              LAMBDA st1 : add_dependencies(st1, root_package, deps, i + 1, f, vis))

\* A variant that adds the edge only for a dependency it also queues.
add_dependencies_edge_if_queued(st, root_package, deps, i, f, vis) ==
    IF i > Len(deps) THEN st
    ELSE bind(IF should_skip_package(f, deps[i]) \/ deps[i] \in vis
              THEN st
              ELSE [graph |-> add_edge(st.graph, root_package, deps[i]),
                    queue |-> Append(st.queue, deps[i])],
              LAMBDA st1 : add_dependencies(st1, root_package, deps, i + 1, f, vis))

add_dependencies(st, root_package, deps, i, f, vis) ==
    IF i > Len(deps) THEN st
    ELSE bind(IF should_skip_package(f, deps[i])
              THEN st
              ELSE [graph |-> add_edge(st.graph, root_package, deps[i]),
                    queue |-> IF deps[i] \notin vis
                              THEN Append(st.queue, deps[i]) ELSE st.queue],
              LAMBDA st1 : add_dependencies(st1, root_package, deps, i + 1, f, vis))

\* A variant whose depth test is >= (one level too strict).
enter_depth_strict(root_package, current_depth, f, depth_limit, r, g, vis, inp) ==
    IF current_depth >= depth_limit
       \/ should_skip_package(f, root_package)
       \/ root_package \in inp
       \/ root_package \in vis
    THEN [outcome |-> "return", graph |-> g, visited |-> vis,
          in_progress |-> inp, queue |-> <<>>]
    ELSE bind(get_package_dependencies(r, root_package), LAMBDA got :
         IF ~got.ok
         THEN [outcome |-> "raise", graph |-> g, visited |-> vis,
               in_progress |-> inp, queue |-> <<>>]
         ELSE bind(add_dependencies([graph |-> add_node(g, root_package),
                                     queue |-> <<>>],
                                    root_package, got.dependencies, 1, f, vis),
                   LAMBDA res :
              [outcome |-> "expand", graph |-> res.graph,
               visited |-> vis \cup {root_package},
               in_progress |-> inp, queue |-> res.queue]))

\* A variant that adds the node before the fetch.
enter_node_first(root_package, current_depth, f, depth_limit, r, g, vis, inp) ==
    IF current_depth > depth_limit
       \/ should_skip_package(f, root_package)
       \/ root_package \in inp
       \/ root_package \in vis
    THEN [outcome |-> "return", graph |-> g, visited |-> vis,
          in_progress |-> inp, queue |-> <<>>]
    ELSE bind(get_package_dependencies(r, root_package), LAMBDA got :
         IF ~got.ok
         THEN [outcome |-> "raise", graph |-> add_node(g, root_package), visited |-> vis,
               in_progress |-> inp, queue |-> <<>>]
         ELSE bind(add_dependencies([graph |-> add_node(g, root_package),
                                     queue |-> <<>>],
                                    root_package, got.dependencies, 1, f, vis),
                   LAMBDA res :
              [outcome |-> "expand", graph |-> res.graph,
               visited |-> vis \cup {root_package},
               in_progress |-> inp, queue |-> res.queue]))

\* A variant without the test of the visited set.
enter_no_visited_test(root_package, current_depth, f, depth_limit, r, g, vis, inp) ==
    IF current_depth > depth_limit
       \/ should_skip_package(f, root_package)
       \/ root_package \in inp
    THEN [outcome |-> "return", graph |-> g, visited |-> vis,
          in_progress |-> inp, queue |-> <<>>]
    ELSE bind(get_package_dependencies(r, root_package), LAMBDA got :
         IF ~got.ok
         THEN [outcome |-> "raise", graph |-> g, visited |-> vis,
               in_progress |-> inp, queue |-> <<>>]
         ELSE bind(add_dependencies([graph |-> add_node(g, root_package),
                                     queue |-> <<>>],
                                    root_package, got.dependencies, 1, f, vis),
                   LAMBDA res :
              [outcome |-> "expand", graph |-> res.graph,
               visited |-> vis \cup {root_package},
               in_progress |-> inp, queue |-> res.queue]))

\* One call of build_dependency_graph_bfs, up to the loop over its queue.
\* outcome: "return" (an early return), "raise" (DependencyError leaves the
\* call), "expand" (the package was fetched and its queue is to be processed).
\* A variant whose depth test lets one more level through.
enter_depth_lenient(root_package, current_depth, f, depth_limit, r, g, vis, inp) ==
    IF current_depth > depth_limit + 1
       \/ should_skip_package(f, root_package)
       \/ root_package \in inp
       \/ root_package \in vis
    THEN [outcome |-> "return", graph |-> g, visited |-> vis,
          in_progress |-> inp, queue |-> <<>>]
    ELSE LET inp1 == inp \cup {root_package}
         IN  bind(get_package_dependencies(r, root_package), LAMBDA got :
             IF ~got.ok
             THEN [outcome |-> "raise", graph |-> g, visited |-> vis,
                   in_progress |-> inp1 \ {root_package}, queue |-> <<>>]
             ELSE bind(add_dependencies([graph |-> add_node(g, root_package),
                                         queue |-> <<>>],
                                        root_package, got.dependencies, 1, f, vis),
                       LAMBDA res :
                  [outcome |-> "expand", graph |-> res.graph,
                   visited |-> vis \cup {root_package},
                   in_progress |-> inp1 \ {root_package},
                   queue |-> res.queue]))

\* A variant whose except clause does not discard the package from
\* in_progress.
enter_no_discard(root_package, current_depth, f, depth_limit, r, g, vis, inp) ==
    IF current_depth > depth_limit
       \/ should_skip_package(f, root_package)
       \/ root_package \in inp
       \/ root_package \in vis
    THEN [outcome |-> "return", graph |-> g, visited |-> vis,
          in_progress |-> inp, queue |-> <<>>]
    ELSE LET inp1 == inp \cup {root_package}
         IN  bind(get_package_dependencies(r, root_package), LAMBDA got :
             IF ~got.ok
             THEN [outcome |-> "raise", graph |-> g, visited |-> vis,
                   in_progress |-> inp1, queue |-> <<>>]
             ELSE bind(add_dependencies([graph |-> add_node(g, root_package),
                                         queue |-> <<>>],
                                        root_package, got.dependencies, 1, f, vis),
                       LAMBDA res :
                  [outcome |-> "expand", graph |-> res.graph,
                   visited |-> vis \cup {root_package},
                   in_progress |-> inp1 \ {root_package},
                   queue |-> res.queue]))

enter(root_package, current_depth, f, depth_limit, r, g, vis, inp) ==
    IF current_depth > depth_limit
       \/ should_skip_package(f, root_package)
       \/ root_package \in inp
       \/ root_package \in vis
    THEN [outcome |-> "return", graph |-> g, visited |-> vis,
          in_progress |-> inp, queue |-> <<>>]
    ELSE LET inp1 == inp \cup {root_package}
         IN  bind(get_package_dependencies(r, root_package), LAMBDA got :
             IF ~got.ok
             THEN [outcome |-> "raise", graph |-> g, visited |-> vis,
                   in_progress |-> inp1 \ {root_package}, queue |-> <<>>]
             ELSE bind(add_dependencies([graph |-> add_node(g, root_package),
                                         queue |-> <<>>],
                                        root_package, got.dependencies, 1, f, vis),
                       LAMBDA res :
                  [outcome |-> "expand", graph |-> res.graph,
                   visited |-> vis \cup {root_package},
                   in_progress |-> inp1 \ {root_package},
                   queue |-> res.queue]))

(***************************************************************************)
(* detect_cycles.  Python iterates a set in an order the program does not  *)
(* control: node_order is the order in which self.graph.nodes is iterated  *)
(* and succ_order[n] the order in which the successor set of n is.         *)
(***************************************************************************)
\* list.index
index_of(w, x) == CHOOSE i \in 1..Len(w) : w[i] = x /\ \A j \in 1..(i - 1) : w[j] # x

\* all orders in which a set can be iterated
Perms(S) ==
    {w \in [1..Cardinality(S) -> S] : \A i, j \in 1..Cardinality(S) : w[i] = w[j] => i = j}

RECURSIVE SuccOrdersOver(_, _)
SuccOrdersOver(g, S) ==
    IF S = {} THEN {[n \in {} |-> <<>>]}
    ELSE LET k == CHOOSE x \in S : TRUE
         IN  {[n \in S |-> IF n = k THEN w ELSE rest[n]] :
                 w \in Perms(g.edges[k]), rest \in SuccOrdersOver(g, S \ {k})}

\* every choice of an iteration order for each successor set
SuccOrders(g) == SuccOrdersOver(g, DOMAIN g.edges)

\* the nested function dfs of detect_cycles; st = [cycles, visited]
RECURSIVE dfs(_, _, _, _)
RECURSIVE dfs_neighbors(_, _, _, _, _)
\* A variant that takes every node seen before for a node of the current path.
dfs_seen_is_cycle(succ_order, node, path, st) ==
    IF InSeq(node, path) \/ node \in st.visited
    THEN [st EXCEPT !.cycles = Append(@, Append(path, node))]
    ELSE bind([path |-> Append(path, node),
               st |-> [st EXCEPT !.visited = @ \cup {node}]],
              LAMBDA b : dfs_neighbors(succ_order, node, 1, b.path, b.st))

\* A variant that tests the global visited set before the current path.
dfs_visited_first(succ_order, node, path, st) ==
    IF node \in st.visited
    THEN st
    ELSE IF InSeq(node, path)
    THEN [st EXCEPT !.cycles = Append(@, Append(SubSeq(path, index_of(path, node),
                                                       Len(path)), node))]
    ELSE bind([path |-> Append(path, node),
               st |-> [st EXCEPT !.visited = @ \cup {node}]],
              LAMBDA b : dfs_neighbors(succ_order, node, 1, b.path, b.st))

\* A variant that reports the whole current path instead of its slice from
\* the repeated node on.
dfs_whole_path(succ_order, node, path, st) ==
    IF InSeq(node, path)
    THEN [st EXCEPT !.cycles = Append(@, Append(path, node))]
    ELSE IF node \in st.visited
    THEN st
    ELSE bind([path |-> Append(path, node),
               st |-> [st EXCEPT !.visited = @ \cup {node}]],
              LAMBDA b : dfs_neighbors(succ_order, node, 1, b.path, b.st))

\* A variant without the test of the global visited set.
dfs_no_visited_test(succ_order, node, path, st) ==
    IF InSeq(node, path)
    THEN LET cycle_start == index_of(path, node)
             cycle == Append(SubSeq(path, cycle_start, Len(path)), node)
         IN  [st EXCEPT !.cycles = Append(@, cycle)]
    ELSE bind([path |-> Append(path, node),
               st |-> [st EXCEPT !.visited = @ \cup {node}]],
              LAMBDA b : dfs_neighbors(succ_order, node, 1, b.path, b.st))

dfs(succ_order, node, path, st) ==
    IF InSeq(node, path)
    THEN LET cycle_start == index_of(path, node)
             cycle == Append(SubSeq(path, cycle_start, Len(path)), node)
         IN  [st EXCEPT !.cycles = Append(@, cycle)]
    ELSE IF node \in st.visited
    THEN st
    ELSE bind([path |-> Append(path, node),
               st |-> [st EXCEPT !.visited = @ \cup {node}]],
              LAMBDA b : dfs_neighbors(succ_order, node, 1, b.path, b.st))

\* lines 365-366: for neighbor in self.graph.get_dependencies(node), the loop
\* being at position i of the successors of node
dfs_neighbors(succ_order, node, i, path, st) ==
    IF node \notin DOMAIN succ_order \/ i > Len(succ_order[node]) THEN st
    ELSE bind(dfs(succ_order, succ_order[node][i], path, st),
              LAMBDA st1 : dfs_neighbors(succ_order, node, i + 1, path, st1))

\* lines 369-370: for node in self.graph.nodes: dfs(node, []), the loop being
\* at position i of the nodes
RECURSIVE dfs_from_each(_, _, _, _)
dfs_from_each(succ_order, node_order, i, st) ==
    IF i > Len(node_order) THEN st
    ELSE bind(dfs(succ_order, node_order[i], <<>>, st),
              LAMBDA st1 : dfs_from_each(succ_order, node_order, i + 1, st1))

\* DependencyVisualizer.detect_cycles
detect_cycles(node_order, succ_order) ==
    dfs_from_each(succ_order, node_order, 1, [cycles |-> <<>>, visited |-> {}]).cycles

(***************************************************************************)
(* _print_tree.  sorted() orders the names by code point; the set it is    *)
(* given arrives in the iteration order succ_order[node].                  *)
(***************************************************************************)
\* ord() of the characters the names are made of
ord(c) ==
    CASE c = " " -> 32
      [] c = "A" -> 65 [] c = "B" -> 66 [] c = "C" -> 67 [] c = "D" -> 68
      [] c = "E" -> 69 [] c = "F" -> 70 [] c = "G" -> 71 [] c = "V" -> 86
      [] c = "_" -> 95
      [] c = "a" -> 97 [] c = "d" -> 100 [] c = "e" -> 101 [] c = "f" -> 102
      [] c = "p" -> 112 [] c = "v" -> 118

\* str.__lt__: lexicographic comparison of two strings
str_lt(a, b) ==
    LET w == Spelling(a)
        x == Spelling(b)
    IN  \E k \in 1..(Len(w) + 1) :
            /\ k <= Len(x)
            /\ \A j \in 1..(k - 1) : w[j] = x[j]
            /\ (k = Len(w) + 1 \/ ord(w[k]) < ord(x[k]))

\* the sorted list with one more element put at its place (after its equals)
insert_sorted(acc, x) ==
    LET k == Cardinality({j \in 1..Len(acc) : ~str_lt(x, acc[j])})
    IN  SubSeq(acc, 1, k) \o <<x>> \o SubSeq(acc, k + 1, Len(acc))

RECURSIVE sorted_from(_, _, _)
sorted_from(w, i, acc) ==
    IF i > Len(w) THEN acc
    ELSE bind(insert_sorted(acc, w[i]), LAMBDA acc1 : sorted_from(w, i + 1, acc1))

\* A variant that keeps the iteration order of the set (list() for sorted()).
sorted_as_iterated(w) == w

\* sorted(iterable), the iterable yielding the elements of w in turn
sorted(w) == sorted_from(w, 1, <<>>)

\* one printed line: the prefix (a list of three-character extensions), the
\* connector ("" on the line that heads a subtree; "|- " and "+- " stand for
\* the box-drawing branch and last-branch marks), the name and the cyclic
\* annotation.  above is not text: it lists the nodes from the root down to
\* the parent of the name on the line.
Line(prefix, connector, name, cyclic, above) ==
    [prefix |-> prefix, connector |-> connector, name |-> name,
     cyclic |-> cyclic, above |-> above]

\* A variant that hands its own visited set to the recursive calls (no
\* copy()): st = [lines, visited]
RECURSIVE tree_shared(_, _, _, _, _)
RECURSIVE deps_shared(_, _, _, _, _, _)
tree_shared(succ_order, node, prefix, above, st) ==
    IF node \in st.visited
    THEN [st EXCEPT !.lines = Append(@, Line(prefix, "+- ", node, TRUE, above))]
    ELSE bind(sorted(IF node \in DOMAIN succ_order THEN succ_order[node] ELSE <<>>),
              LAMBDA dependencies :
                 deps_shared(succ_order, dependencies, 1, prefix, Append(above, node),
                             [lines |-> Append(st.lines, Line(prefix, "", node, FALSE, above)),
                              visited |-> st.visited \cup {node}]))

deps_shared(succ_order, dependencies, i, prefix, above, st) ==
    IF i > Len(dependencies) THEN st
    ELSE LET dep == dependencies[i]
             is_last == (i = Len(dependencies))
             connector == IF is_last THEN "+- " ELSE "|- "
             extension == IF is_last THEN "   " ELSE "|  "
         IN  bind(IF dep \in st.visited
                  THEN [st EXCEPT !.lines = Append(@, Line(prefix, connector, dep, TRUE, above))]
                  ELSE tree_shared(succ_order, dep, Append(prefix, extension), above,
                           [st EXCEPT !.lines =
                               Append(@, Line(prefix, connector, dep, FALSE, above))]),
                  LAMBDA st1 : deps_shared(succ_order, dependencies, i + 1, prefix,
                                           above, st1))

RECURSIVE print_tree(_, _, _, _, _)
RECURSIVE print_tree_deps(_, _, _, _, _, _)
print_tree_shared_visited(succ_order, node, vis, prefix, above) ==
    tree_shared(succ_order, node, prefix, above,
                [lines |-> <<>>, visited |-> vis]).lines

\* DependencyVisualizer._print_tree: the lines it prints
print_tree(succ_order, node, vis, prefix, above) ==
    IF node \in vis
    THEN <<Line(prefix, "+- ", node, TRUE, above)>>
    ELSE bind(sorted(IF node \in DOMAIN succ_order THEN succ_order[node] ELSE <<>>),
              LAMBDA dependencies :
                 <<Line(prefix, "", node, FALSE, above)>>
                 \o print_tree_deps(succ_order, dependencies, 1,
                                    vis \cup {node}, prefix, Append(above, node)))

\* lines 428-437: for i, dep in enumerate(dependencies), from position i on
print_tree_deps(succ_order, dependencies, i, vis, prefix, above) ==
    IF i > Len(dependencies) THEN <<>>
    ELSE LET dep == dependencies[i]
             is_last == (i = Len(dependencies))
             connector == IF is_last THEN "+- " ELSE "|- "
             extension == IF is_last THEN "   " ELSE "|  "
         IN  (IF dep \in vis
              THEN <<Line(prefix, connector, dep, TRUE, above)>>
              ELSE <<Line(prefix, connector, dep, FALSE, above)>>
                   \o print_tree(succ_order, dep, vis,
                                 Append(prefix, extension), above))
             \o print_tree_deps(succ_order, dependencies, i + 1, vis, prefix, above)

(***************************************************************************)
(* The load order (Kahn's algorithm).  Its code is not among the sources;  *)
(* it is taken from section 4.4 of the specification.  order is the fixed  *)
(* order of the nodes that breaks ties and lists the unresolved nodes.     *)
(***************************************************************************)
\* the elements of the list w that are in S, in the order of w
RECURSIVE keep(_, _)
keep(w, S) ==
    IF w = <<>> THEN <<>>
    ELSE (IF Head(w) \in S THEN <<Head(w)>> ELSE <<>>) \o keep(Tail(w), S)

\* A variant without the fallback: the nodes no round resolves are dropped.
RECURSIVE kahn_no_fallback(_, _, _)
kahn_no_fallback(g, order, emitted) ==
    LET done == {emitted[i] : i \in 1..Len(emitted)}
        eligible == {n \in g.nodes \ done : g.edges[n] \subseteq done}
    IN  IF eligible = {} THEN emitted
        ELSE kahn_no_fallback(g, order, emitted \o keep(order, eligible))

\* A variant that reads the edges the other way: a node is eligible when all
\* its dependents are emitted.
RECURSIVE kahn_dependents_first(_, _, _)
kahn_dependents_first(g, order, emitted) ==
    LET done == {emitted[i] : i \in 1..Len(emitted)}
        eligible == {n \in g.nodes \ done :
                        {u \in g.nodes : n \in g.edges[u]} \subseteq done}
    IN  IF eligible = {}
        THEN emitted \o keep(order, g.nodes \ done)
        ELSE kahn_dependents_first(g, order, emitted \o keep(order, eligible))

\* the rounds of Kahn's algorithm from the nodes emitted so far: the nodes
\* all of whose dependencies are emitted are emitted next, in the fixed order;
\* when no node is eligible the remaining nodes follow in the fixed order
RECURSIVE kahn(_, _, _)
kahn(g, order, emitted) ==
    LET done == {emitted[i] : i \in 1..Len(emitted)}
        eligible == {n \in g.nodes \ done : g.edges[n] \subseteq done}
    IN  IF eligible = {}
        THEN emitted \o keep(order, g.nodes \ done)
        ELSE kahn(g, order, emitted \o keep(order, eligible))

\* loadOrder(graph)
load_order_of(g, order) == kahn(g, order, <<>>)

(***************************************************************************)
(* validate_config (the checks on the package name and the filter; the     *)
(* repository path is taken to exist)                                      *)
(***************************************************************************)
MaxPackageNameLen == 255
MaxFilterLen == 100

\* str.strip() leaves nothing
is_blank(w) == \A i \in 1..Len(w) : w[i] = " "

\* A variant that tests the package name without strip().
validate_config_raises_unstripped(name, f) ==
    \/ Len(Spelling(name)) = 0
    \/ Len(Spelling(name)) > MaxPackageNameLen
    \/ (f # None /\ Len(Spelling(f)) > MaxFilterLen)

\* TRUE when validate_config raises ConfigError
validate_config_raises(name, f) ==
    \/ Len(Spelling(name)) = 0 \/ is_blank(Spelling(name))
    \/ Len(Spelling(name)) > MaxPackageNameLen
    \/ (f # None /\ Len(Spelling(f)) > MaxFilterLen)

(***************************************************************************)
(* The inputs of the model.                                                *)
(***************************************************************************)
DefaultMaxDepth == 10
Running == -1

Names == {"A", "B", "C", "D", "E", "F", "G", "C_DEV", "E_DEV", "p*255"}
GenNames == {"A", "B", "C_DEV"}

\* test_examples.py: simple_graph
simple_graph ==
    [n \in Names |->
        CASE n = "A" -> Pkg(<<"B", "C">>)
          [] n = "B" -> Pkg(<<"D">>)
          [] n = "C" -> Pkg(<<"D", "E">>)
          [] n = "D" -> Pkg(<<>>)
          [] n = "E" -> Pkg(<<>>)
          [] OTHER -> NotFound]

\* test_examples.py: cyclic_graph
cyclic_graph ==
    [n \in Names |->
        CASE n = "A" -> Pkg(<<"B">>)
          [] n = "B" -> Pkg(<<"C">>)
          [] n = "C" -> Pkg(<<"A", "D">>)
          [] n = "D" -> Pkg(<<>>)
          [] OTHER -> NotFound]

\* the cycle A -> B -> C -> A alone
triangle_graph ==
    [n \in Names |->
        CASE n = "A" -> Pkg(<<"B">>)
          [] n = "B" -> Pkg(<<"C">>)
          [] n = "C" -> Pkg(<<"A">>)
          [] OTHER -> NotFound]

\* test_examples.py: filtered_graph
filtered_graph ==
    [n \in Names |->
        CASE n = "A" -> Pkg(<<"B", "C_DEV", "D">>)
          [] n = "B" -> Pkg(<<"E_DEV">>)
          [] n = "C_DEV" -> Pkg(<<"F">>)
          [] n = "D" -> Pkg(<<"G">>)
          [] n = "E_DEV" -> Pkg(<<>>)
          [] n = "F" -> Pkg(<<>>)
          [] n = "G" -> Pkg(<<>>)
          [] OTHER -> NotFound]

\* a repository whose lists repeat a name and whose second package is missing
partial_graph ==
    [n \in Names |->
        CASE n = "A" -> Pkg(<<"B", "C", "B", "D">>)
          [] n = "C" -> Pkg(<<"B", "E">>)
          [] n = "D" -> Pkg(<<"D", "A">>)
          [] n = "E" -> Pkg(<<>>)
          [] OTHER -> NotFound]

\* two elementary cycles through A: A -> B -> C -> A and A -> C -> A
two_cycle_graph ==
    [n \in Names |->
        CASE n = "A" -> Pkg(<<"B", "C">>)
          [] n = "B" -> Pkg(<<"C">>)
          [] n = "C" -> Pkg(<<"A">>)
          [] OTHER -> NotFound]

\* a chain whose third package is listed by the root too; a_deps is the order
\* in which the file lists the dependencies of A
shortcut_graph(a_deps) ==
    [n \in Names |->
        CASE n = "A" -> Pkg(a_deps)
          [] n = "B" -> Pkg(<<"C">>)
          [] n = "C" -> Pkg(<<"D">>)
          [] n = "D" -> Pkg(<<"E">>)
          [] n = "E" -> Pkg(<<>>)
          [] OTHER -> NotFound]

Config(name, f, d, r) ==
    [package_name |-> name, filter_substring |-> f, max_depth |-> d, repo |-> r]

ScenarioConfigs ==
    {Config("A", None, d, simple_graph) : d \in {0, 1, DefaultMaxDepth}}
    \cup {Config("A", None, d, r) :
            d \in {1, DefaultMaxDepth}, r \in {cyclic_graph, triangle_graph, partial_graph}}
    \cup {Config("A", f, DefaultMaxDepth, filtered_graph) : f \in {"_DEV", "_dev", "a", "D"}}
    \cup {Config("A", f, d, cyclic_graph) : f \in {"", "a", "_DEV"}, d \in {-1, 0}}
    \cup {Config("A", "E", d, partial_graph) : d \in {1, DefaultMaxDepth}}
    \cup {Config(n, None, DefaultMaxDepth, simple_graph) : n \in {"", " ", "G"}}
    \cup {Config(n, None, DefaultMaxDepth, simple_graph) : n \in {"p*255", "p*256"}}
    \cup {Config("A", f, DefaultMaxDepth, simple_graph) : f \in {"f*100", "f*101"}}
    \cup {Config("A", None, DefaultMaxDepth, two_cycle_graph)}
    \cup {Config("A", None, 2, shortcut_graph(w)) : w \in {<<"B", "C">>, <<"C", "B">>}}

GenDepLists ==
    {w \in UNION {[1..k -> GenNames] : k \in 0..Cardinality(GenNames)} :
        \A i, j \in 1..Len(w) : w[i] = w[j] => i = j}

\* the number of dependency entries a repository file holds
RECURSIVE entries(_, _)
entries(r, keys) ==
    IF keys = {} THEN 0
    ELSE LET k == CHOOSE x \in keys : TRUE
         IN  Len(r[k].dependencies) + entries(r, keys \ {k})

GenRepos ==
    {r \in [GenNames -> {NotFound} \cup {Pkg(w) : w \in GenDepLists}] :
        entries(r, GenNames) <= MaxEntries}

GenFilters == {None, "_dev"}

\* with three package names a call at depth 3 finds its package visited, so
\* DefaultMaxDepth stands for every limit of 2 or more
GenDepths == {0, 1, DefaultMaxDepth}

\* the packages a run from root A with filter f and limit d never fetches:
\* those the filter excludes, and with d = 0 everything but the root
NeverFetched(f, d) ==
    {n \in GenNames : \/ should_skip_package(f, n)
                      \/ (d = 0 /\ n # "A")}

\* what the repository file says about a package that is never fetched makes
\* no difference to the run, so such a package is left out of the file
GenReposFor(f, d) ==
    {r \in GenRepos : \A n \in NeverFetched(f, d) : r[n] = NotFound}

GenConfigs ==
    UNION {{Config("A", fd[1], fd[2], r) : r \in GenReposFor(fd[1], fd[2])} :
              fd \in GenFilters \X GenDepths}

Configs == ScenarioConfigs \cup GenConfigs

(***************************************************************************)
(* The initial states: a process of the tool that has not read its         *)
(* arguments yet, and a caller holding a fresh DependencyGraph.            *)
(***************************************************************************)
\* the values the configuration variables hold where no DependencyVisualizer exists
NoConfig == Config("", None, DefaultMaxDepth, [n \in Names |-> NotFound])

\* nothing printed yet
NoOutput == [nodes |-> 0, edges |-> 0, tree |-> <<>>]
\* no load order computed yet
NoOrder == <<None>>

InitFields ==
    /\ package_name = NoConfig.package_name
    /\ filter_substring = NoConfig.filter_substring
    /\ max_depth = NoConfig.max_depth
    /\ repo = NoConfig.repo
    /\ graph = EmptyGraph
    /\ visited = {}
    /\ in_progress = {}
    /\ stack = <<>>
    /\ warnings = <<>>
    /\ calls = {}
    /\ exit_code = Running
    /\ printed = "nothing"
    /\ cycles = <<>>
    /\ output = NoOutput
    /\ expansions = <<>>
    /\ load_order = NoOrder
    /\ stage2_dependencies = <<>>
    /\ api_last = <<>>
    /\ api_prev = EmptyGraph
    /\ api_repeat = FALSE
    /\ api_calls = 0

\* a process of the tool at its start
InitTool ==
    /\ mode = "tool"
    /\ pc = "start"
    /\ InitFields

\* a caller holding a fresh DependencyGraph
InitApi ==
    /\ mode = "api"
    /\ pc = "api"
    /\ InitFields

\* a process of the stage-2 tool at its start
InitStage2 ==
    /\ mode = "stage2"
    /\ pc = "start"
    /\ InitFields

Init == InitTool \/ InitApi \/ InitStage2

(***************************************************************************)
(* Operations of a direct caller on a DependencyGraph.                     *)
(***************************************************************************)
ApiUnchanged ==
    UNCHANGED <<mode, package_name, filter_substring, max_depth, repo, visited,
                in_progress, stack, warnings, calls, pc, exit_code, printed, cycles,
                output, expansions, load_order, stage2_dependencies>>

\* graph.add_node(n)
AddNode(n) ==
    /\ mode = "api"
    /\ api_calls < MaxApiCalls
    /\ graph' = add_node(graph, n)
    /\ api_prev' = graph
    /\ api_last' = <<"add_node", n>>
    /\ api_repeat' = (api_last = <<"add_node", n>>)
    /\ api_calls' = api_calls + 1
    /\ ApiUnchanged

\* graph.add_edge(u, v)
AddEdge(u, v) ==
    /\ mode = "api"
    /\ api_calls < MaxApiCalls
    /\ graph' = add_edge(graph, u, v)
    /\ api_prev' = graph
    /\ api_last' = <<"add_edge", u, v>>
    /\ api_repeat' = (api_last = <<"add_edge", u, v>>)
    /\ api_calls' = api_calls + 1
    /\ ApiUnchanged

(***************************************************************************)
(* One run of the tool: main -> validate_config -> analyze_dependencies -> *)
(* build_dependency_graph_bfs -> print_graph.                              *)
(***************************************************************************)
ToolUnchanged ==
    UNCHANGED <<mode, package_name, filter_substring, max_depth, repo,
                stage2_dependencies,
                api_last, api_prev, api_repeat, api_calls>>

Frame(p, d, q) == [package |-> p, depth |-> d, queue |-> q]
\* a record of one call: its arguments, the package whose loop made it (None
\* for the call from analyze_dependencies), how it went and the queue it built
Call(p, d, parent, outcome, q) ==
    [package |-> p, depth |-> d, parent |-> parent, outcome |-> outcome, queue |-> q]

\* A variant that looks at the first of the queue without removing it.
advance_stuck(queue) == queue

\* the packages still to be processed after the loop took the first of the queue
advance(queue) == Tail(queue)

\* main, lines 541-550: parse_arguments and DependencyVisualizer.__init__; the
\* command line and the repository it names are the inputs of the run
ParseArguments ==
    /\ mode = "tool" /\ pc = "start"
    /\ \E c \in Configs :
          /\ package_name' = c.package_name
          /\ filter_substring' = c.filter_substring
          /\ max_depth' = c.max_depth
          /\ repo' = c.repo
    /\ pc' = "validate"
    /\ UNCHANGED <<mode, graph, visited, in_progress, stack, warnings, calls, exit_code,
                   printed, cycles, output, expansions, load_order,
                   stage2_dependencies,
                   api_last, api_prev, api_repeat, api_calls>>

\* main, lines 552-563: validate_config raises ConfigError (return 1) or not
ValidateConfig ==
    /\ mode = "tool" /\ pc = "validate"
    /\ IF validate_config_raises(package_name, filter_substring)
       THEN pc' = "done" /\ exit_code' = 1
       ELSE pc' = "analyze" /\ exit_code' = exit_code
    /\ UNCHANGED <<graph, visited, in_progress, stack, warnings, calls, printed, cycles,
                   output, expansions, load_order>>
    /\ ToolUnchanged

\* analyze_dependencies, lines 441-456: the call build_dependency_graph_bfs(
\* package_name) up to the loop over its queue; DependencyError -> sys.exit(1)
AnalyzeDependencies ==
    /\ mode = "tool" /\ pc = "analyze"
    /\ \E res \in {enter(package_name, 0, filter_substring, max_depth, repo,
                         graph, visited, in_progress)} :
           /\ graph' = res.graph
           /\ visited' = res.visited
           /\ in_progress' = res.in_progress
           /\ calls' = calls \cup {Call(package_name, 0, None, res.outcome, res.queue)}
           /\ expansions' = IF res.outcome = "expand"
                            THEN Append(expansions, package_name) ELSE expansions
           /\ CASE res.outcome = "raise" ->
                     /\ pc' = "done" /\ exit_code' = 1 /\ stack' = stack
                [] res.outcome = "return" ->
                     /\ pc' = "print" /\ exit_code' = exit_code /\ stack' = stack
                [] res.outcome = "expand" ->
                     /\ pc' = "build" /\ exit_code' = exit_code
                     /\ stack' = <<Frame(package_name, 0, res.queue)>>
    /\ UNCHANGED <<warnings, printed, cycles, output, load_order>>
    /\ ToolUnchanged

\* A variant whose try/except encloses the whole loop: a failed dependency
\* ends the loop of its referrer.
BuildStep_try_around_loop ==
    /\ mode = "tool" /\ pc = "build"
    /\ stack # <<>>
    /\ stack[Len(stack)].queue # <<>>
    /\ Len(warnings) < MaxWarnings
    /\ LET top == stack[Len(stack)]
           dep_name == Head(top.queue)
           rest == [stack EXCEPT ![Len(stack)].queue = advance(@)]
       IN  \E res \in {enter(dep_name, top.depth + 1, filter_substring, max_depth,
                              repo, graph, visited, in_progress)} :
           /\ graph' = res.graph
           /\ visited' = res.visited
           /\ in_progress' = res.in_progress
           /\ calls' = calls \cup {Call(dep_name, top.depth + 1, top.package,
                                       res.outcome, res.queue)}
           /\ expansions' = IF res.outcome = "expand"
                            THEN Append(expansions, dep_name) ELSE expansions
           /\ CASE res.outcome = "raise" ->
                     /\ warnings' = Append(warnings, dep_name)
                     /\ stack' = [stack EXCEPT ![Len(stack)].queue = <<>>]
                [] res.outcome = "return" ->
                     /\ warnings' = warnings /\ stack' = rest
                [] res.outcome = "expand" ->
                     /\ warnings' = warnings
                     /\ stack' = Append(rest, Frame(dep_name, top.depth + 1, res.queue))
    /\ UNCHANGED <<pc, exit_code, printed, cycles, output, load_order>>
    /\ ToolUnchanged

\* lines 327-333: one iteration of `for dep_name in queue` in the innermost
\* active call: the recursive call, up to the loop over its own queue
BuildStep ==
    /\ mode = "tool" /\ pc = "build"
    /\ stack # <<>>
    /\ stack[Len(stack)].queue # <<>>
    /\ Len(warnings) < MaxWarnings
    /\ LET top == stack[Len(stack)]
           dep_name == Head(top.queue)
           rest == [stack EXCEPT ![Len(stack)].queue = advance(@)]
       IN  \E res \in {enter(dep_name, top.depth + 1, filter_substring, max_depth,
                              repo, graph, visited, in_progress)} :
           /\ graph' = res.graph
           /\ visited' = res.visited
           /\ in_progress' = res.in_progress
           /\ calls' = calls \cup {Call(dep_name, top.depth + 1, top.package,
                                       res.outcome, res.queue)}
           /\ expansions' = IF res.outcome = "expand"
                            THEN Append(expansions, dep_name) ELSE expansions
           /\ CASE res.outcome = "raise" ->
                     /\ warnings' = Append(warnings, dep_name) /\ stack' = rest
                [] res.outcome = "return" ->
                     /\ warnings' = warnings /\ stack' = rest
                [] res.outcome = "expand" ->
                     /\ warnings' = warnings
                     /\ stack' = Append(rest, Frame(dep_name, top.depth + 1, res.queue))
    /\ UNCHANGED <<pc, exit_code, printed, cycles, output, load_order>>
    /\ ToolUnchanged

\* the innermost active call has processed its queue and returns
BuildReturn ==
    /\ mode = "tool" /\ pc = "build"
    /\ stack # <<>>
    /\ stack[Len(stack)].queue = <<>>
    /\ stack' = SubSeq(stack, 1, Len(stack) - 1)
    /\ pc' = IF Len(stack) = 1 THEN "print" ELSE "build"
    /\ UNCHANGED <<graph, visited, in_progress, warnings, calls, exit_code, printed, cycles,
                   output, expansions, load_order>>
    /\ ToolUnchanged

\* print_graph, lines 374-407, then main's return 0.  node_order and
\* succ_order are the orders in which this process iterates the node set and
\* the successor sets.
PrintGraph ==
    /\ mode = "tool" /\ pc = "print"
    /\ IF graph.nodes = {}
       THEN /\ printed' = "empty"
            /\ cycles' = cycles
            /\ output' = output
       ELSE /\ printed' = "graph"
            /\ \E node_order \in Perms(graph.nodes), succ_order \in SuccOrders(graph) :
                  /\ output' = [nodes |-> Cardinality(graph.nodes),
                                edges |-> total_edges(graph),
                                tree |-> print_tree(succ_order, package_name, {}, <<>>, <<>>)]
                  /\ cycles' = detect_cycles(node_order, succ_order)
    /\ pc' = "done"
    /\ exit_code' = 0
    /\ UNCHANGED <<graph, visited, in_progress, stack, warnings, calls, expansions,
                   load_order>>
    /\ ToolUnchanged

\* loadOrder(graph) on the graph of a finished build; order is the fixed order
\* of the nodes the orderer uses
LoadOrder ==
    /\ mode = "tool" /\ pc = "done" /\ exit_code = 0
    /\ load_order = NoOrder
    /\ \E order \in Perms(graph.nodes) : load_order' = load_order_of(graph, order)
    /\ UNCHANGED <<graph, visited, in_progress, stack, warnings, calls, pc, exit_code,
                   printed, cycles, output, expansions>>
    /\ ToolUnchanged

(***************************************************************************)
(* One run of the stage-2 tool: main -> validate_config ->                 *)
(* analyze_dependencies -> get_package_dependencies.                       *)
(***************************************************************************)
\* src/stage2: TRUE when validate_config raises ConfigError (the repository
\* path names an existing file)
stage2_validate_config_raises(name, f) ==
    \/ Len(Spelling(name)) = 0 \/ is_blank(Spelling(name))
    \/ Len(Spelling(name)) > MaxPackageNameLen
    \/ (f # None /\ Len(Spelling(f)) > MaxFilterLen)

\* src/stage2, lines 221-226: the dict comprehension that applies the filter,
\* from position i of dependencies.items() on
RECURSIVE stage2_apply_filter(_, _, _, _)
stage2_apply_filter(deps, i, f, kept) ==
    IF i > Len(deps) THEN kept
    ELSE bind(IF contains(lower(Spelling(deps[i])), lower(Spelling(f)))
              THEN Append(kept, deps[i]) ELSE kept,
              LAMBDA kept1 : stage2_apply_filter(deps, i + 1, f, kept1))

\* src/stage2: DependencyVisualizer.get_package_dependencies; ok = FALSE
\* stands for DependencyError
stage2_get_package_dependencies(r, name, f) ==
    IF ~r[name].found
    THEN [ok |-> FALSE, dependencies |-> <<>>]
    ELSE bind(dict_keys(r[name].dependencies), LAMBDA deps :
             [ok |-> TRUE,
              dependencies |-> IF truthy(f) THEN stage2_apply_filter(deps, 1, f, <<>>)
                               ELSE deps])

\* src/stage2: main, lines 355-384: the command line is read, validate_config
\* and analyze_dependencies run, and main returns
Stage2Main ==
    /\ mode = "stage2" /\ pc = "start"
    /\ \E c \in Configs :
          /\ package_name' = c.package_name
          /\ filter_substring' = c.filter_substring
          /\ max_depth' = c.max_depth
          /\ repo' = c.repo
          /\ IF stage2_validate_config_raises(c.package_name, c.filter_substring)
             THEN exit_code' = 1 /\ stage2_dependencies' = stage2_dependencies
             ELSE \E got \in {stage2_get_package_dependencies(c.repo, c.package_name,
                                                              c.filter_substring)} :
                     IF got.ok
                     THEN exit_code' = 0 /\ stage2_dependencies' = got.dependencies
                     ELSE exit_code' = 1 /\ stage2_dependencies' = stage2_dependencies
    /\ pc' = "done"
    /\ UNCHANGED <<mode, graph, visited, in_progress, stack, warnings, calls, printed,
                   cycles, output, expansions, load_order,
                   api_last, api_prev, api_repeat, api_calls>>

Next ==
    \/ \E n \in GenNames : AddNode(n)
    \/ \E u, v \in GenNames : AddEdge(u, v)
    \/ ParseArguments
    \/ ValidateConfig
    \/ AnalyzeDependencies
    \/ BuildStep
    \/ BuildReturn
    \/ PrintGraph
    \/ LoadOrder
    \/ Stage2Main

Spec == Init /\ [][Next]_vars

\* the steps of a run of the tool
NextTool ==
    ParseArguments \/ ValidateConfig \/ AnalyzeDependencies \/ BuildStep \/ BuildReturn \/ PrintGraph

\* a run of the tool keeps running until main returns
SpecTool == InitTool /\ [][NextTool]_vars /\ WF_vars(NextTool)

(***************************************************************************)
(* Properties                                                              *)
(***************************************************************************)
RootCall(outcome) ==
    \E c \in calls : c.parent = None /\ c.outcome = outcome

\* C1: in every state of a direct caller's session and of a build (also one
\* with failed fetches, a filter or a depth cut-off), both endpoints of every
\* edge are in the node set and the keys of the edges map are the node set.
C1_NoDanglingEdges ==
    /\ \A e \in EdgeSet(graph) : e[1] \in graph.nodes /\ e[2] \in graph.nodes
    /\ DOMAIN graph.edges = graph.nodes

\* a finished build with a filter, a failed fetch and a package cut off by depth
C1_Witness ==
    /\ mode = "tool" /\ pc = "done" /\ exit_code = 0
    /\ truthy(filter_substring)
    /\ warnings # <<>>
    /\ EdgeSet(graph) # {}
    /\ \E c \in calls : c.outcome = "return" /\ c.depth > max_depth

\* C2: when a direct caller repeats its previous call (add_node(n) after
\* add_node(n), add_edge(u, v) after add_edge(u, v)), the second call leaves
\* nodes and edges as they were and the edge count is unchanged.
C2_Idempotent ==
    (mode = "api" /\ api_repeat) =>
        /\ graph = api_prev
        /\ total_edges(graph) = total_edges(api_prev)

\* add_edge("A", "B") made twice in a row
C2_Witness ==
    /\ mode = "api" /\ api_repeat
    /\ api_last = <<"add_edge", "A", "B">>
    /\ has_edge(graph, "A", "B")

\* C3: every run of the tool ends (main returns or the process exits),
\* whatever the repository lists (a package depending on itself or on an
\* ancestor, missing packages) and whatever max_depth is.
C3_BuildTerminates == <>(pc = "done")

\* a finished build over a repository in which a package lists itself and an
\* ancestor, and in which a fetch failed
C3_Witness ==
    /\ pc = "done" /\ exit_code = 0
    /\ \E n \in graph.nodes : has_edge(graph, n, n)
    /\ \E n \in graph.nodes : n # package_name /\ has_edge(graph, n, package_name)
    /\ warnings # <<>>

\* the finished run of the tool on repository r from root A with max_depth d
\* and no filter
FinishedRun(r, d) ==
    /\ mode = "tool" /\ pc = "done" /\ exit_code = 0
    /\ repo = r /\ package_name = "A" /\ max_depth = d /\ filter_substring = None

\* C4: on {A:[B,C], B:[D], C:[D,E], D:[], E:[]}, root A, no filter, max_depth
\* 10, the graph has exactly the nodes A..E and the edges A->B, A->C, B->D,
\* C->D, C->E, and detect_cycles returns no cycle under every iteration order.
C4_SimpleGraph ==
    FinishedRun(simple_graph, DefaultMaxDepth) =>
        /\ graph.nodes = {"A", "B", "C", "D", "E"}
        /\ EdgeSet(graph) = {<<"A", "B">>, <<"A", "C">>, <<"B", "D">>,
                             <<"C", "D">>, <<"C", "E">>}
        /\ total_edges(graph) = 5
        /\ printed = "graph"
        /\ cycles = <<>>

C4_Witness ==
    FinishedRun(simple_graph, DefaultMaxDepth) /\ printed = "graph"

\* the name contains the filter, case-insensitively
MatchesFilter(name, f) ==
    LET w == Spelling(name)
        x == Spelling(f)
    IN  \E off \in 0..(Len(w) - Len(x)) :
            \A k \in 1..Len(x) : lower_char(w[off + k]) = lower_char(x[k])

Excluded(name) == truthy(filter_substring) /\ MatchesFilter(name, filter_substring)

\* the names the repository lists as dependencies of a package
ListedDeps(n) == {repo[n].dependencies[i] : i \in 1..Len(repo[n].dependencies)}

\* C5: a package is fetched only in a call at depth <= max_depth; every
\* dependency of an expanded package that the filter does not exclude has its
\* edge in the graph; with max_depth = 0 on the simple graph the result is
\* nodes {A,B,C}, edges A->B, A->C, and only A was fetched.
C5_DepthRespect ==
    /\ \A c \in calls : c.outcome \in {"expand", "raise"} => c.depth <= max_depth
    /\ \A c \in calls : c.outcome = "expand" =>
          \A d \in ListedDeps(c.package) :
              ~Excluded(d) => has_edge(graph, c.package, d)
    /\ FinishedRun(simple_graph, 0) =>
          /\ graph.nodes = {"A", "B", "C"}
          /\ EdgeSet(graph) = {<<"A", "B">>, <<"A", "C">>}
          /\ {c.package : c \in {x \in calls : x.outcome # "return"}} = {"A"}

C5_Witness ==
    /\ FinishedRun(simple_graph, 0)
    /\ graph.nodes = {"A", "B", "C"}
    /\ \E c \in calls : c.package = "B" /\ c.depth = 1 /\ c.outcome = "return"

\* the packages reachable from the root through packages the filter keeps
RECURSIVE KeptReach(_)
KeptReach(S) ==
    LET S2 == S \cup {d \in UNION {ListedDeps(n) : n \in {x \in S : repo[x].found}} :
                         ~Excluded(d)}
    IN  IF S2 = S THEN S ELSE KeptReach(S2)

\* C6: with a non-empty filter f no node of the graph, no key of the edges map
\* and no endpoint of an edge has a name containing f case-insensitively, and
\* every node is reachable from the root through packages the filter keeps (so
\* F, listed only by C_DEV, is absent under "_DEV" and under "_dev").
C6_Filtering ==
    truthy(filter_substring) =>
        /\ \A n \in graph.nodes \cup DOMAIN graph.edges : ~Excluded(n)
        /\ \A e \in EdgeSet(graph) : ~Excluded(e[1]) /\ ~Excluded(e[2])
        /\ graph.nodes \subseteq KeptReach({package_name})
        /\ (repo = filtered_graph /\ filter_substring \in {"_DEV", "_dev"}) =>
              "F" \notin graph.nodes

C6_Witness ==
    /\ mode = "tool" /\ pc = "done" /\ exit_code = 0
    /\ repo = filtered_graph /\ filter_substring = "_dev"
    /\ graph.nodes = {"A", "B", "D", "G"}

\* C7 (as claimed): whenever the repository holds the root and max_depth >= 0,
\* the finished build contains the root node and the edges to its dependencies
\* that the filter keeps, also when the filter matches the root's own name.
C7_RootNeverFiltered ==
    (/\ mode = "tool" /\ pc = "done"
     /\ ~validate_config_raises(package_name, filter_substring)
     /\ repo[package_name].found
     /\ max_depth >= 0) =>
        /\ package_name \in graph.nodes
        /\ \A d \in ListedDeps(package_name) :
              ~Excluded(d) => has_edge(graph, package_name, d)

\* C8: a failed fetch of a non-root package is reported by exactly one warning
\* and leaves the edge from its referrer in the graph; the run fails only on a
\* configuration error or a failed root fetch; and in a finished build every
\* package an expanded package queued was called from that package's loop and
\* is expanded unless it is missing or beyond max_depth.
C8_FailedFetchIsLocal ==
    /\ \A c \in calls : (c.outcome = "raise" /\ c.parent # None) =>
          /\ InSeq(c.package, warnings)
          /\ has_edge(graph, c.parent, c.package)
    /\ Len(warnings) = Cardinality({c \in calls : c.outcome = "raise" /\ c.parent # None})
    /\ (mode = "tool" /\ exit_code = 1) =>
          \/ validate_config_raises(package_name, filter_substring)
          \/ RootCall("raise")
    /\ (mode = "tool" /\ pc \in {"print", "done"} /\ exit_code # 1) =>
          \A c \in calls : c.outcome = "expand" =>
              \A i \in 1..Len(c.queue) :
                  /\ \E c2 \in calls : /\ c2.parent = c.package
                                       /\ c2.package = c.queue[i]
                                       /\ c2.depth = c.depth + 1
                  /\ \/ c.queue[i] \in visited
                     \/ ~repo[c.queue[i]].found
                     \/ c.depth + 1 > max_depth

\* a finished build in which a package failed and a later sibling was expanded
C8_Witness ==
    /\ mode = "tool" /\ pc = "done" /\ exit_code = 0
    /\ \E c \in calls :
          /\ c.outcome = "expand"
          /\ \E i, k \in 1..Len(c.queue) :
                /\ i < k
                /\ ~repo[c.queue[i]].found
                /\ InSeq(c.queue[i], warnings)
                /\ \E c2 \in calls : /\ c2.parent = c.package
                                     /\ c2.package = c.queue[k]
                                     /\ c2.outcome = "expand"

\* C9: when the fetch of the root fails the run is over with exit status 1,
\* print_graph was not called, and the graph has no node and no edge.
C9_RootUnavailable ==
    RootCall("raise") =>
        /\ pc = "done" /\ exit_code = 1
        /\ printed = "nothing" /\ cycles = <<>>
        /\ graph.nodes = {} /\ DOMAIN graph.edges = {} /\ EdgeSet(graph) = {}
        /\ warnings = <<>>

C9_Witness ==
    /\ RootCall("raise") /\ exit_code = 1
    /\ ~repo[package_name].found

\* the rotations of a cycle [n0, n1, ..., nk, n0]
Rotations(cycle) ==
    LET k == Len(cycle) - 1
    IN  {[i \in 1..(k + 1) |-> cycle[((i - 1 + r) % k) + 1]] : r \in 0..(k - 1)}

\* C10: on A -> B -> C -> A (the test's cyclic_graph, and the bare triangle)
\* built from root A, detect_cycles returns a rotation of [A, B, C, A] under
\* every iteration order of the node set and the successor sets.
C10_TriangleFound ==
    \A r \in {cyclic_graph, triangle_graph} :
        FinishedRun(r, DefaultMaxDepth) =>
            \E i \in 1..Len(cycles) : cycles[i] \in Rotations(<<"A", "B", "C", "A">>)

C10_Witness ==
    /\ FinishedRun(cyclic_graph, DefaultMaxDepth)
    /\ <<"B", "C", "A", "B">> \in {cycles[i] : i \in 1..Len(cycles)}

\* the nodes reachable from the nodes of S along one or more edges
RECURSIVE ReachFrom(_, _)
ReachFrom(g, S) ==
    LET S2 == S \cup UNION {g.edges[n] : n \in S \cap DOMAIN g.edges}
    IN  IF S2 = S THEN S ELSE ReachFrom(g, S2)

\* no node reaches itself
Acyclic(g) ==
    \A n \in g.nodes : n \notin ReachFrom(g, g.edges[n])

Before(w, x, y) ==
    \E i, j \in 1..Len(w) : i < j /\ w[i] = x /\ w[j] = y

\* C11: the load order of an acyclic graph has, for every edge (u, v), v
\* before u; on the graph built from simple_graph D and E come before B and C,
\* and B and C before A.
C11_LoadOrderAcyclic ==
    load_order # NoOrder =>
        /\ Acyclic(graph) => \A e \in EdgeSet(graph) : Before(load_order, e[2], e[1])
        /\ FinishedRun(simple_graph, DefaultMaxDepth) =>
              /\ \A x \in {"D", "E"}, y \in {"B", "C"} : Before(load_order, x, y)
              /\ \A y \in {"B", "C"} : Before(load_order, y, "A")

C11_Witness ==
    /\ FinishedRun(simple_graph, DefaultMaxDepth)
    /\ load_order = <<"E", "D", "C", "B", "A">>

\* C12: the load order lists every node of the graph exactly once, also when
\* the graph has a cycle; the nodes on or behind a cycle follow the resolved
\* ones.
C12_LoadOrderComplete ==
    load_order # NoOrder =>
        /\ Len(load_order) = Cardinality(graph.nodes)
        /\ {load_order[i] : i \in 1..Len(load_order)} = graph.nodes
        /\ \A i, j \in 1..Len(load_order) : load_order[i] = load_order[j] => i = j
        /\ \A i, j \in 1..Len(load_order) :
              (/\ load_order[i] \notin ReachFrom(graph, graph.edges[load_order[i]])
               /\ ReachFrom(graph, graph.edges[load_order[i]]) \cap
                     {n \in graph.nodes : n \in ReachFrom(graph, graph.edges[n])} = {}
               /\ load_order[j] \in ReachFrom(graph, graph.edges[load_order[j]]))
              => i < j

\* the graph of cyclic_graph: D is resolved, A, B and C are on the cycle
C12_Witness ==
    /\ FinishedRun(cyclic_graph, DefaultMaxDepth)
    /\ Len(load_order) = 4 /\ load_order[1] = "D"
    /\ ~Acyclic(graph)

\* one fixed iteration order of the node set and of the successor sets
FixedNodeOrder(g) == CHOOSE w \in Perms(g.nodes) : TRUE
FixedSuccOrder(g) == CHOOSE so \in SuccOrders(g) : TRUE

\* what print_graph writes before the cycle list when the sets are iterated
\* in the fixed orders
FixedOutput ==
    [nodes |-> Cardinality(graph.nodes),
     edges |-> total_edges(graph),
     tree |-> print_tree(FixedSuccOrder(graph), package_name, {}, <<>>, <<>>)]

FixedCycles == detect_cycles(FixedNodeOrder(graph), FixedSuccOrder(graph))

\* C13 (as claimed): whatever the iteration orders of a run, print_graph writes
\* the counts, the tree and the cycle list it writes under the fixed orders.
C13_RenderingDeterministic ==
    printed = "graph" => (output = FixedOutput /\ cycles = FixedCycles)

\* C13 (amended): whatever the iteration orders of a run, print_graph writes
\* the counts and the tree it writes under the fixed orders, and it reports
\* cycles exactly when it does under the fixed orders.
C13_TreeDeterministic ==
    printed = "graph" =>
        /\ output = FixedOutput
        /\ (cycles = <<>>) <=> (FixedCycles = <<>>)

\* a run on the cyclic graph whose cycle list differs from the one of the
\* fixed orders, and whose tree has a node with two dependencies
C13_Witness ==
    /\ FinishedRun(cyclic_graph, DefaultMaxDepth)
    /\ printed = "graph"
    /\ cycles # FixedCycles
    /\ \E i \in 1..Len(output.tree) : output.tree[i].connector = "|- "

\* C14: in the tree print_graph wrote, a line is annotated as cyclic exactly
\* when its name is among the nodes above it on the rendering path; an
\* annotated line is a leaf; a line that is not annotated is followed by the
\* subtree of its name; no path repeats a node (so the recursion is bounded by
\* the number of nodes); D of the simple graph is printed under B and under C
\* without annotation.
C14_TreeRendering ==
    printed = "graph" =>
        LET t == output.tree
        IN  /\ \A i \in 1..Len(t) :
                  /\ t[i].cyclic <=> InSeq(t[i].name, t[i].above)
                  /\ \A j, k \in 1..Len(t[i].above) :
                        t[i].above[j] = t[i].above[k] => j = k
                  /\ Len(t[i].above) <= Cardinality(graph.nodes)
                  /\ Len(t[i].prefix) <= Cardinality(graph.nodes)
                  /\ t[i].cyclic =>
                        (i = Len(t) \/ Len(t[i + 1].prefix) <= Len(t[i].prefix))
                  /\ (~t[i].cyclic /\ t[i].connector # "") =>
                        /\ i < Len(t)
                        /\ t[i + 1].name = t[i].name
                        /\ t[i + 1].connector = ""
                        /\ Len(t[i + 1].prefix) = Len(t[i].prefix) + 1
            /\ FinishedRun(simple_graph, DefaultMaxDepth) =>
                  \A p \in {"B", "C"} :
                      \E i \in 1..Len(t) :
                          /\ t[i].name = "D" /\ t[i].connector # ""
                          /\ t[i].above = <<"A", p>> /\ ~t[i].cyclic

\* the tree of the cyclic graph: A again under C is an annotated leaf
C14_Witness ==
    /\ FinishedRun(cyclic_graph, DefaultMaxDepth)
    /\ printed = "graph"
    /\ \E i \in 1..Len(output.tree) :
          /\ output.tree[i].name = "A" /\ output.tree[i].cyclic
          /\ output.tree[i].above = <<"A", "B", "C">>

\* C15: when the package name is empty or blank or longer than 255
\* characters, or the filter is longer than 100 characters, validate_config
\* raises: the run is over at once with exit status 1 and no call of
\* build_dependency_graph_bfs (hence no fetch) was ever made.
C15_ValidationBeforeFetch ==
    (/\ mode = "tool" /\ pc \notin {"start", "validate"}
     /\ \/ Len(Spelling(package_name)) = 0
        \/ is_blank(Spelling(package_name))
        \/ Len(Spelling(package_name)) > 255
        \/ (filter_substring # None /\ Len(Spelling(filter_substring)) > 100)) =>
        /\ pc = "done" /\ exit_code = 1
        /\ calls = {} /\ graph = EmptyGraph /\ visited = {}
        /\ printed = "nothing"

\* a blank package name was rejected before any call of the builder
C15_Witness ==
    /\ mode = "tool" /\ pc = "done" /\ exit_code = 1 /\ calls = {}
    /\ package_name = " "

\* C16 (as claimed): a run with a negative max_depth ends with a non-zero exit
\* status and without any call of the builder.
C16_NegativeDepthRejected ==
    (mode = "tool" /\ pc = "done" /\ max_depth < 0) =>
        (exit_code # 0 /\ calls = {})

\* C17 (as claimed): between two iterations of the builder's loops, that is
\* whenever a call for a dependency is about to be entered, in_progress is the
\* set of the packages of the calls on the stack.
C17_InProgressIsPath ==
    (mode = "tool" /\ pc = "build") =>
        in_progress = {stack[i].package : i \in 1..Len(stack)}

\* C18: no package is fetched with success twice in a build: the fetched
\* packages are the visited ones, each once; any further call for a visited
\* package only returns, and the edge from its referrer is in the graph.
C18_FetchedOnce ==
    /\ \A i, j \in 1..Len(expansions) : expansions[i] = expansions[j] => i = j
    /\ {expansions[i] : i \in 1..Len(expansions)} = visited
    /\ \A p \in visited :
          Cardinality({c \in calls : c.package = p /\ c.outcome # "return"}) = 1
    /\ \A c \in calls : (c.package \in visited /\ c.parent # None) =>
          has_edge(graph, c.parent, c.package)

\* a package queued by one package and fetched under another before its turn:
\* the call made at its turn only returned
C18_Witness ==
    /\ mode = "tool" /\ pc = "done" /\ exit_code = 0
    /\ \E c, c2 \in calls :
          /\ c.package = c2.package /\ c.parent # c2.parent
          /\ c.outcome = "expand"
          /\ c2.outcome = "return" /\ c2.depth <= max_depth
          /\ has_edge(graph, c2.parent, c2.package)

\* C19 (as claimed): of two packages expanded from the queue of the same
\* package, the second is expanded before any dependency of the first is.
C19_BreadthFirstSiblings ==
    \A cx, cy, cz \in {c \in calls : c.outcome = "expand"} :
        (/\ cx.parent # None /\ cx.parent = cy.parent /\ cx.package # cy.package
         /\ cz.parent = cx.package) =>
            Before(expansions, cy.package, cz.package)

\* C20 (as claimed): as many warnings as there are distinct non-root packages
\* whose fetch failed.
C20_OneWarningPerPackage ==
    Len(warnings) =
        Cardinality({c.package : c \in {x \in calls : x.outcome = "raise" /\ x.parent # None}})

\* the paths without a repeated node that extend path p along edges of g
RECURSIVE SimplePaths(_, _)
SimplePaths(g, p) ==
    {p} \cup UNION {SimplePaths(g, Append(p, n)) :
                       n \in {x \in get_dependencies(g, p[Len(p)]) : ~InSeq(x, p)}}

\* the elementary cycles of g as closed node sequences [n0, ..., nk, n0], one
\* for each starting point
ElementaryCycles(g) ==
    {Append(p, p[1]) :
        p \in {q \in UNION {SimplePaths(g, <<n>>) : n \in g.nodes} :
                  has_edge(g, q[Len(q)], q[1])}}

\* the cycles print_graph reported
Reported == {cycles[i] : i \in 1..Len(cycles)}

\* C21 (as claimed): every elementary cycle of the graph is reported, up to
\* rotation, under every iteration order of the node set and the successor
\* sets; on A -> {B, C}, B -> {C}, C -> {A} both A -> B -> C -> A and
\* A -> C -> A are.
C21_AllElementaryCycles ==
    printed = "graph" =>
        \A c \in ElementaryCycles(graph) : Rotations(c) \cap Reported # {}

\* C22: every cycle detect_cycles returned is a closed path of the graph: at
\* least two elements, first equal to last, every consecutive pair an edge,
\* no node but the first repeated; every self-loop n -> n is reported as
\* [n, n].
C22_CyclesAreClosedPaths ==
    printed = "graph" =>
        /\ \A c \in Reported :
              /\ Len(c) >= 2
              /\ c[1] = c[Len(c)]
              /\ \A i \in 1..(Len(c) - 1) : has_edge(graph, c[i], c[i + 1])
              /\ \A i, j \in 1..(Len(c) - 1) : c[i] = c[j] => i = j
        /\ \A n \in graph.nodes : has_edge(graph, n, n) => <<n, n>> \in Reported

\* the run on the repository with D -> {D, A}: the self-loop, found with A
\* before D on the path, is reported as [D, D], and the cycle through A is
\* reported as well
C22_Witness ==
    /\ FinishedRun(partial_graph, DefaultMaxDepth)
    /\ printed = "graph"
    /\ <<"D", "D">> \in Reported
    /\ <<"A", "D", "A">> \in Reported

\* C23 (as claimed): every run of the tool that ends with success has been
\* through the cycle analysis, and the analysis returned the empty list (the
\* no-cycles confirmation was printed) exactly when the graph has no directed
\* cycle.
C23_CycleAnalysisAlways ==
    (mode = "tool" /\ pc = "done" /\ exit_code = 0) =>
        /\ printed = "graph"
        /\ (cycles = <<>>) <=> Acyclic(graph)

\* the edge that closes a reported cycle: last-but-one node -> first node
ClosingEdge(c) == <<c[Len(c) - 1], c[1]>>

\* C30: detect_cycles reports no cycle twice: no two entries of the list are
\* equal or rotations of each other, the entries close on pairwise distinct
\* edges of the graph, and there are at most as many entries as edges.
C30_NoCycleTwice ==
    printed = "graph" =>
        /\ \A i, j \in 1..Len(cycles) :
              i # j => /\ cycles[i] \notin Rotations(cycles[j])
                       /\ ClosingEdge(cycles[i]) # ClosingEdge(cycles[j])
        /\ \A i \in 1..Len(cycles) : ClosingEdge(cycles[i]) \in EdgeSet(graph)
        /\ Len(cycles) <= total_edges(graph)

\* the run on the graph with two cycles through A and C in which both were
\* reported, the search having started at B
C30_Witness ==
    /\ FinishedRun(two_cycle_graph, DefaultMaxDepth)
    /\ printed = "graph"
    /\ cycles = <<<<"B", "C", "A", "B">>, <<"C", "A", "C">>>>

\* the names of a list
Range(w) == {w[i] : i \in 1..Len(w)}

\* the dependencies of package n that stage 3 keeps: those for which
\* should_skip_package is false
Stage3Kept(r, n, f) ==
    {d \in Range(dict_keys(r[n].dependencies)) : ~should_skip_package(f, d)}

\* C24 (as claimed): with a non-empty filter f, no name that stage 2 reports
\* as a dependency contains f case-insensitively, and the names it reports
\* are those stage 3 keeps.
C24_FilterExcludesInEveryStage ==
    (mode = "stage2" /\ pc = "done" /\ exit_code = 0 /\ truthy(filter_substring)) =>
        /\ \A d \in Range(stage2_dependencies) : ~MatchesFilter(d, filter_substring)
        /\ Range(stage2_dependencies) = Stage3Kept(repo, package_name, filter_substring)

\* a run of the tool with max_depth = 0 that got through the build
DepthZeroRun ==
    mode = "tool" /\ pc \in {"print", "done"} /\ exit_code # 1 /\ max_depth = 0

\* C25 (as claimed): with max_depth = 0 the built graph has the root as its
\* only node and no edge.
C25_DepthZeroRootOnly ==
    (DepthZeroRun /\ graph.nodes # {}) =>
        (graph.nodes = {package_name} /\ EdgeSet(graph) = {})

\* C25 (amended): with max_depth = 0 only the root is fetched; the graph has
\* the root, one node for each of its dependencies that the filter keeps and
\* one edge from the root to each of them, and nothing else (a root whose own
\* name matches the filter is not fetched either, and the graph stays empty).
C25_DepthZeroRootExpanded ==
    DepthZeroRun =>
        IF should_skip_package(filter_substring, package_name)
        THEN graph = EmptyGraph /\ visited = {}
        ELSE /\ visited = {package_name}
             /\ \A c \in calls :
                   c.outcome # "return" => c.package = package_name /\ c.depth = 0
             /\ graph.nodes = {package_name}
                                 \cup Stage3Kept(repo, package_name, filter_substring)
             /\ EdgeSet(graph) = {<<package_name, d>> :
                                     d \in Stage3Kept(repo, package_name, filter_substring)}

\* the run on the simple graph with max_depth = 0: B and C are nodes, the
\* calls for them returned at the depth test
C25_Witness ==
    /\ FinishedRun(simple_graph, 0)
    /\ EdgeSet(graph) = {<<"A", "B">>, <<"A", "C">>}
    /\ \A n \in {"B", "C"} :
          \E c \in calls : c.package = n /\ c.depth = 1 /\ c.outcome = "return"

\* C26: at every point of a run of the tool, every node of the graph is the
\* root or is reached from the root along edges of the graph, and every node
\* but the root has an incoming edge; the tree print_graph writes names
\* exactly the nodes it counts.
C26_NodesReachableFromRoot ==
    mode = "tool" =>
        /\ graph.nodes \subseteq
              {package_name} \cup ReachFrom(graph, get_dependencies(graph, package_name))
        /\ \A n \in graph.nodes \ {package_name} :
              \E u \in graph.nodes : has_edge(graph, u, n)
        /\ printed = "graph" =>
              {output.tree[i].name : i \in 1..Len(output.tree)} = graph.nodes

\* the run with filter _dev on the filtered graph: E_DEV and C_DEV were left
\* out, G is reached through D only
C26_Witness ==
    /\ mode = "tool" /\ pc = "done" /\ printed = "graph"
    /\ repo = filtered_graph /\ filter_substring = "_dev"
    /\ graph.nodes = {"A", "B", "D", "G"}
    /\ total_edges(graph) = 3

\* the packages at distance <= k from the root in the data of the provider
RECURSIVE Within(_)
Within(k) ==
    IF k <= 0 THEN {package_name}
    ELSE LET S == Within(k - 1)
         IN  S \cup UNION {ListedDeps(n) : n \in {x \in S : repo[x].found}}

\* C27 (as claimed): with no filter and no failed fetch, every package at
\* distance <= max_depth from the root has all its dependency edges in the
\* built graph, whatever the order in which the provider lists dependencies.
C27_ExpandedWithinDistance ==
    (/\ mode = "tool" /\ pc \in {"print", "done"} /\ exit_code # 1
     /\ ~truthy(filter_substring) /\ max_depth >= 0
     /\ \A n \in Within(max_depth + 1) : repo[n].found) =>
        \A n \in Within(max_depth) :
            \A d \in ListedDeps(n) : has_edge(graph, n, d)

\* C28: at every point of a run of the tool, the successors of a visited
\* package are exactly the names of its dependency mapping that the filter
\* keeps (itself and its ancestors included), and a node that is not visited
\* has no successor.
C28_SuccessorsOfExpanded ==
    mode = "tool" =>
        /\ \A p \in visited :
              /\ p \in graph.nodes
              /\ get_dependencies(graph, p) = Stage3Kept(repo, p, filter_substring)
        /\ \A n \in graph.nodes \ visited : get_dependencies(graph, n) = {}

\* the run on the repository with D -> {D, A} and B missing: D has the edge
\* to itself and the edge to its ancestor A, and B is a node without
\* successors
C28_Witness ==
    /\ FinishedRun(partial_graph, DefaultMaxDepth)
    /\ get_dependencies(graph, "D") = {"D", "A"}
    /\ "B" \in graph.nodes \ visited

\* the calls of the builder that raised DependencyError
Raised == {c \in calls : c.outcome = "raise"}

\* C29: a package whose fetch failed is in neither in_progress nor visited
\* and has no outgoing edge; in_progress is empty after every call, returned
\* or raised; and once the build is over, every expanded package that lists
\* a missing package within depth has made its own failed call for it, each
\* reported by its own warning.
C29_FailedFetchRestores ==
    mode = "tool" =>
        /\ in_progress = {}
        /\ \A c \in Raised :
              /\ c.package \notin visited
              /\ get_dependencies(graph, c.package) = {}
        /\ (pc \in {"print", "done"} /\ exit_code # 1) =>
              /\ \A c \in calls : c.outcome = "expand" /\ c.depth + 1 <= max_depth =>
                    \A d \in Stage3Kept(repo, c.package, filter_substring) :
                        ~repo[d].found =>
                            Call(d, c.depth + 1, c.package, "raise", <<>>) \in calls
              /\ Len(warnings) = Cardinality(Raised)

\* the run in which the missing B, listed by A and by C, was fetched under
\* each of them
C29_Witness ==
    /\ FinishedRun(partial_graph, DefaultMaxDepth)
    /\ warnings = <<"B", "B">>
    /\ {c.parent : c \in {x \in Raised : x.package = "B"}} = {"A", "C"}

====
